---- MODULE Spec2Model ----
(***************************************************************************)
(* Model of the static codebase model builder of hooker: buildGraph        *)
(* (src/main.ts), parseDeps (src/parsing/dependencies.ts) and the          *)
(* ArchitectureAnalyzer (analysis/architecture, src/unnamed/part_003),     *)
(* and of smartDeobfuscate (deobfuscation, src/unnamed/part_000).          *)
(*                                                                         *)
(* Strings are sequences of one-character strings, so that split, endsWith,*)
(* includes and the extension regular expressions are computed as the code *)
(* computes them.  The syntax-tree collaborator (@babel/parser) is an      *)
(* input: every file on the disk carries the outcome of each parse mode    *)
(* and the tree a successful parse yields.                                 *)
(***************************************************************************)
EXTENDS Integers, Sequences, FiniteSets, TLC

\* ------------------------------------------------------------------ bounds
\* Largest number of files walk() hands to the batch.
MaxFiles == 3
\* Largest number of import declarations of the importing file of a batch.
MaxDeps == 2
\* Largest number of top-level statements of a scored file.
MaxItems == 2
\* Largest number of files of a batch of branching files.
MaxBand == 6
\* Largest number of files of such a batch whose complexity is not 35.
MaxOthers == 2

\* ----------------------------------------------------------------- strings
SLASH == "/"
DOT == "."
\* the characters the class [a-zA-Z0-9] accepts, among those the model's
\* strings are written with
Alnum == {"a", "b", "c", "d", "e", "f", "g", "h", "i", "j", "k", "l", "m",
          "n", "o", "p", "q", "r", "s", "t", "u", "v", "w", "x", "y", "z"}

EmptyStr == << >>

\* String.prototype.endsWith
EndsWith(s, suf) ==
  /\ Len(suf) <= Len(s)
  /\ SubSeq(s, Len(s) - Len(suf) + 1, Len(s)) = suf

\* String.prototype.includes
Includes(s, sub) ==
  \E i \in 0..(Len(s) - Len(sub)) : SubSeq(s, i + 1, i + Len(sub)) = sub

\* s with its last n characters removed
DropLast(s, n) == SubSeq(s, 1, Len(s) - n)

\* position of the last "/" of s, 0 when there is none
LastSlash(s) ==
  LET idx == {i \in 1..Len(s) : s[i] = SLASH}
  IN IF idx = {} THEN 0 ELSE CHOOSE i \in idx : \A j \in idx : j <= i

\* s.split("/").pop(): the text after the last "/"
LastSegment(s) == SubSeq(s, LastSlash(s) + 1, Len(s))

\* s.split("/").slice(0, -1).join("/"): the text before the last "/"
DirPart(s) == SubSeq(s, 1, LastSlash(s) - 1)

\* s.replace(/\.(js|ts|jsx|tsx)$/, "")
StripCodeExt(s) ==
  IF EndsWith(s, <<DOT, "j", "s", "x">>) \/ EndsWith(s, <<DOT, "t", "s", "x">>)
    THEN DropLast(s, 4)
  ELSE IF EndsWith(s, <<DOT, "j", "s">>) \/ EndsWith(s, <<DOT, "t", "s">>)
    THEN DropLast(s, 3)
  ELSE s

\* s.replace(/\.ts$/, "")
StripTs(s) == IF EndsWith(s, <<DOT, "t", "s">>) THEN DropLast(s, 3) ELSE s

\* s.replace(/\.js$/, "")
StripJs(s) == IF EndsWith(s, <<DOT, "j", "s">>) THEN DropLast(s, 3) ELSE s

\* path.extname: from the last "." of the base name, "" when the base name
\* has none or only a leading one
ExtName(s) ==
  LET base == LastSegment(s)
      idx == {i \in 2..Len(base) : base[i] = DOT}
  IN IF idx = {} THEN EmptyStr
     ELSE SubSeq(base, CHOOSE i \in idx : \A j \in idx : j <= i, Len(base))

\* `node_${path.replace(/[^a-zA-Z0-9]/g, "_")}`
sanitizeNodeId(path) ==
  <<"n", "o", "d", "e", "_">> \o
  [i \in 1..Len(path) |-> IF path[i] \in Alnum THEN path[i] ELSE "_"]

\* filePath.split("/").pop()?.replace(/\.(js|ts|jsx|tsx)$/, "") || "unknown"
getModuleName(filePath) ==
  LET n == StripCodeExt(LastSegment(filePath))
  IN IF n = EmptyStr THEN <<"u", "n", "k", "n", "o", "w", "n">> ELSE n

\* ------------------------------------------------------------ syntax trees
\* A node of the tree @babel/parser returns, with the fields the visitors
\* read.  name: the declared identifier (for a function expression or an
\* arrow function the identifier of the variable declarator it initialises),
\* the callee identifier of a call, the operator of a logical expression;
\* src: the source literal of an import or export, or the first argument of
\* a call when it is a string literal; argc: the number of arguments of a
\* call; flag: a call has a function or arrow literal among its arguments,
\* a switch case has a test; kids: the child nodes in traversal order.
\* an absent identifier or literal (null); the empty string is EmptyStr
NoName == << "<none>" >>
Node(type, name, src, argc, flag, kids) ==
  [type |-> type, name |-> name, src |-> src, argc |-> argc, flag |-> flag,
   kids |-> kids]
Plain(type, kids) == Node(type, NoName, NoName, 0, FALSE, kids)
Named(type, name, kids) == Node(type, name, NoName, 0, FALSE, kids)

RECURSIVE PreOrder(_)
RECURSIVE PreOrderAll(_)
\* the nodes of a subtree in the order traverse() enters them
PreOrder(node) == <<node>> \o PreOrderAll(node.kids)
PreOrderAll(nodes) ==
  IF nodes = << >> THEN << >>
  ELSE PreOrder(Head(nodes)) \o PreOrderAll(Tail(nodes))

\* A node traverse() cannot enter: reaching it raises, and the traversal
\* ends there with what the visitors have accumulated so far.
RECURSIVE Entered(_)
Entered(nodes) ==
  IF nodes = << >> \/ Head(nodes).type = "Malformed" THEN << >>
  ELSE <<Head(nodes)>> \o Entered(Tail(nodes))

\* traverse(ast, visitor): the nodes whose visitor runs
Visited(ast) == Entered(PreOrder(ast))
\* path.traverse(visitor): the descendants of the node, itself excluded
VisitedBelow(node) == Entered(PreOrderAll(node.kids))
\* whether traverse(ast, ...) raises
TraverseThrows(ast) == \E k \in DOMAIN PreOrder(ast) : PreOrder(ast)[k].type = "Malformed"

FunctionTypes == {"FunctionDeclaration", "FunctionExpression",
                  "ArrowFunctionExpression", "ObjectMethod"}

\* Math.round of a non-negative number given in half points
Round(h) == (h + 1) \div 2

RECURSIVE SumSeq(_)
SumSeq(xs) == IF xs = << >> THEN 0 ELSE Head(xs) + SumSeq(Tail(xs))

\* calculateFunctionComplexity, the visitor of one node, in half points,
\* nested functions apart
NestedWeight(n) ==
  CASE n.type \in {"IfStatement", "ConditionalExpression", "WhileStatement",
                   "DoWhileStatement", "ForStatement", "ForInStatement",
                   "ForOfStatement", "CatchClause"} -> 2
    [] n.type = "LogicalExpression" ->
         IF n.name \in {<<"&", "&">>, <<"|", "|">>} THEN 1 ELSE 0
    [] n.type = "SwitchCase" -> IF n.flag THEN 2 ELSE 0
    [] n.type = "AwaitExpression" -> 1
    [] n.type = "CallExpression" -> IF n.flag THEN 1 ELSE 0
    [] OTHER -> 0

RECURSIVE calculateFunctionComplexity(_)
\* calculateFunctionComplexity: base 1, the visitor over every descendant,
\* and for every descendant function its own rounded score again
calculateFunctionComplexity(fn) ==
  LET W(n) == NestedWeight(n)
              + (IF n.type \in FunctionTypes
                   THEN 2 * calculateFunctionComplexity(n) ELSE 0)
      below == VisitedBelow(fn)
  IN Round(2 + SumSeq([k \in DOMAIN below |-> W(below[k])]))

\* analyzeModule, the complexity its visitor adds at one node, in half points
ModuleWeight(n) ==
  CASE n.type \in FunctionTypes -> 2 * calculateFunctionComplexity(n)
    [] n.type = "ClassDeclaration" -> 4
    [] n.type \in {"IfStatement", "WhileStatement", "ForStatement",
                   "SwitchStatement", "TryStatement",
                   "ConditionalExpression"} -> 2
    [] n.type = "LogicalExpression" ->
         IF n.name \in {<<"&", "&">>, <<"|", "|">>} THEN 1 ELSE 0
    [] n.type = "AwaitExpression" -> 1
    [] n.type = "CallExpression" -> IF n.flag THEN 1 ELSE 0
    [] OTHER -> 0

\* the declaration an export carries, when it has one
HasDeclaration(n, type) ==
  /\ n.kids # << >>
  /\ n.kids[1].type = type
  /\ n.kids[1].name # NoName

\* analyzeModule: what the visitor pushes to exports at one node
ExportsAt(n) ==
  CASE n.type = "ExportNamedDeclaration" ->
         IF HasDeclaration(n, "FunctionDeclaration")
              \/ HasDeclaration(n, "ClassDeclaration")
           THEN <<n.kids[1].name>> ELSE << >>
    [] n.type = "ExportDefaultDeclaration" ->
         << <<"d", "e", "f", "a", "u", "l", "t">> >>
    [] OTHER -> << >>

\* analyzeModule: what the visitor pushes to functions at one node
FunctionsAt(n) ==
  CASE n.type = "ExportNamedDeclaration" ->
         IF HasDeclaration(n, "FunctionDeclaration")
           THEN <<n.kids[1].name>> ELSE << >>
    [] n.type \in FunctionTypes ->
         IF n.name # NoName THEN <<n.name>> ELSE << >>
    [] OTHER -> << >>

\* analyzeModule: what the visitor pushes to classes at one node
ClassesAt(n) ==
  CASE n.type = "ExportNamedDeclaration" ->
         IF ~HasDeclaration(n, "FunctionDeclaration")
              /\ HasDeclaration(n, "ClassDeclaration")
           THEN <<n.kids[1].name>> ELSE << >>
    [] n.type = "ClassDeclaration" ->
         IF n.name # NoName THEN <<n.name>> ELSE << >>
    [] OTHER -> << >>

RECURSIVE Concat(_)
Concat(xss) == IF xss = << >> THEN << >> ELSE Head(xss) \o Concat(Tail(xss))

\* -------------------------------------------------------- dependency sets
\* A Set<string> in insertion order: a sequence without repetitions.
RECURSIVE AddAll(_, _)
\* deps.add(x) for every x of xs, in order
AddAll(deps, xs) ==
  IF xs = << >> THEN deps
  ELSE AddAll(IF \E k \in DOMAIN deps : deps[k] = Head(xs)
                THEN deps ELSE Append(deps, Head(xs)),
              Tail(xs))

REQUIRE == <<"r", "e", "q", "u", "i", "r", "e">>
WEBPACK_REQUIRE == <<"_", "_", "w", "e", "b", "p", "a", "c", "k", "_",
                     "r", "e", "q", "u", "i", "r", "e", "_", "_">>

\* parseDeps, the traverse visitor: the specifiers one node adds
DepsAt(n) ==
  CASE n.type = "ImportDeclaration" -> <<n.src>>
    [] n.type = "ExportNamedDeclaration" ->
         IF n.src # NoName /\ n.src # EmptyStr THEN <<n.src>> ELSE << >>
    [] n.type = "ExportAllDeclaration" -> <<n.src>>
    [] n.type = "CallExpression" ->
         IF n.name \in {REQUIRE, WEBPACK_REQUIRE} /\ n.argc = 1
              /\ n.src # NoName
           THEN <<n.src>> ELSE << >>
    [] OTHER -> << >>

CodeExts == {<<DOT, "j", "s">>, <<DOT, "t", "s">>,
             <<DOT, "j", "s", "x">>, <<DOT, "t", "s", "x">>}

\* faulty variant of parseOptions: the loosest mode is tried first
ParseOptionsLoosestFirst == <<"unambiguous", "script", "module">>
\* parseDeps, parseOptions: the sourceType of each parse, in the order tried
parseOptions == <<"module", "script", "unambiguous">>

RECURSIVE TryModes(_, _)
\* parseDeps, the loop over parseOptions from position k on: every parse
\* call it makes, the loop left at the first call that succeeds
TryModes(file, k) ==
  IF k > Len(parseOptions) THEN << >>
  ELSE << [text |-> "raw", sourceType |-> parseOptions[k]] >>
       \o (IF parseOptions[k] \in file.parses THEN << >>
           ELSE TryModes(file, k + 1))

\* parseDeps: every parse call it makes for one file; the call on the
\* comment-stripped text is made when the loop has left ast unset
ParseAttempts(path, file) ==
  IF ~file.readable THEN << >>
  ELSE IF ExtName(path) \notin CodeExts THEN << >>
  ELSE IF \E k \in DOMAIN parseOptions : parseOptions[k] \in file.parses
    THEN TryModes(file, 1)
  ELSE Append(TryModes(file, 1), [text |-> "clean", sourceType |-> "unambiguous"])

\* A file of the disk: readable (readFile succeeds), length (raw.length),
\* parses (the sourceType modes under which parse(raw) succeeds),
\* cleanParses (parse of the comment-stripped text succeeds), ast (the tree
\* of a successful parse).
\* parseDeps: the dependency set of one file
parseDeps(path, file) ==
  IF ~file.readable THEN << >>
  ELSE IF ExtName(path) \notin CodeExts THEN << >>
  ELSE IF file.parses = {} /\ ~file.cleanParses THEN << >>
  ELSE LET v == Visited(file.ast)
       IN AddAll(<< >>, Concat([k \in DOMAIN v |-> DepsAt(v[k])]))

\* analyzeModule: the lists and the score its visitor has accumulated
\* when traverse(ast, visitor) ends, normally or by an exception
ExportsOf(ast) ==
  LET v == Visited(ast) IN Concat([k \in DOMAIN v |-> ExportsAt(v[k])])
FunctionsOf(ast) ==
  LET v == Visited(ast) IN Concat([k \in DOMAIN v |-> FunctionsAt(v[k])])
ClassesOf(ast) ==
  LET v == Visited(ast) IN Concat([k \in DOMAIN v |-> ClassesAt(v[k])])
ComplexityOf(ast) ==
  LET v == Visited(ast) IN SumSeq([k \in DOMAIN v |-> ModuleWeight(v[k])])

\* faulty variant of createEmptyModuleInfo: an unanalysed file is marked
\* by a complexity of -1
CreateEmptyUnscored(filePath, dependencies) ==
  [path |-> filePath, name |-> getModuleName(filePath),
   dependencies |-> dependencies, exports |-> << >>, functions |-> << >>,
   classes |-> << >>, size |-> 0, complexity |-> -1]

\* createEmptyModuleInfo
createEmptyModuleInfo(filePath, dependencies) ==
  [path |-> filePath, name |-> getModuleName(filePath),
   dependencies |-> dependencies, exports |-> << >>, functions |-> << >>,
   classes |-> << >>, size |-> 0, complexity |-> 0]

\* faulty variant of analyzeModule: the parse is not guarded, its error
\* escapes
AnalyzeModuleParseEscapes(filePath, file, dependencies) ==
  IF ~file.readable
    THEN [threw |-> FALSE, info |-> createEmptyModuleInfo(filePath, dependencies)]
  ELSE IF "unambiguous" \notin file.parses
    THEN [threw |-> TRUE, info |-> createEmptyModuleInfo(filePath, dependencies)]
  ELSE [threw |-> FALSE,
        info |-> [path |-> filePath, name |-> getModuleName(filePath),
                  dependencies |-> dependencies,
                  exports |-> ExportsOf(file.ast),
                  functions |-> FunctionsOf(file.ast),
                  classes |-> ClassesOf(file.ast),
                  size |-> file.length,
                  complexity |-> Round(ComplexityOf(file.ast))]]

\* analyzeModule: threw tells whether an exception leaves it, info is the
\* Module Record it returns
analyzeModule(filePath, file, dependencies) ==
  IF ~file.readable
    THEN [threw |-> FALSE, info |-> createEmptyModuleInfo(filePath, dependencies)]
  ELSE IF "unambiguous" \notin file.parses
    THEN [threw |-> FALSE, info |-> createEmptyModuleInfo(filePath, dependencies)]
  ELSE [threw |-> FALSE,
        info |-> [path |-> filePath, name |-> getModuleName(filePath),
                  dependencies |-> dependencies,
                  exports |-> ExportsOf(file.ast),
                  functions |-> FunctionsOf(file.ast),
                  classes |-> ClassesOf(file.ast),
                  size |-> file.length,
                  complexity |-> Round(ComplexityOf(file.ast))]]

\* ------------------------------------------------- specifier resolution
\* The record map (a Map in insertion order) is a sequence of Module
\* Records with pairwise different paths; a resolution result is the
\* position of the record, NoModule for undefined.
NoModule == 0

\* depName of findModuleByDependency
DepName(dep) == StripCodeExt(LastSegment(dep))

\* first loop: moduleName === dep || (depName && moduleName === depName)
ExactFileMatch(module, dep) ==
  LET moduleName == LastSegment(module.path)
  IN \/ moduleName = dep
     \/ (DepName(dep) # EmptyStr /\ moduleName = DepName(dep))

\* second loop, first test: moduleDir.endsWith(depDir) || depDir.endsWith(moduleDir)
DirMatch(module, dep) ==
  LET moduleDir == DirPart(module.path)
      depDir == DirPart(dep)
  IN EndsWith(moduleDir, depDir) \/ EndsWith(depDir, moduleDir)

\* second loop, second test: the names contain one another
NameMatch(module, dep) ==
  /\ DepName(dep) # EmptyStr
  /\ \/ Includes(module.name, DepName(dep))
     \/ Includes(DepName(dep), module.name)

MinOf(S) == CHOOSE i \in S : \A j \in S : i <= j
MaxOf(S) == CHOOSE i \in S : \A j \in S : j <= i

\* faulty variant of findModuleByDependency: the last matching record of
\* a loop instead of the first
FindLastMatch(mods, dep) ==
  LET exact == {i \in DOMAIN mods : ExactFileMatch(mods[i], dep)}
      partial == {i \in DOMAIN mods :
                    DirMatch(mods[i], dep) \/ NameMatch(mods[i], dep)}
  IN IF exact # {} THEN MaxOf(exact)
     ELSE IF partial # {} THEN MaxOf(partial)
     ELSE NoModule

\* faulty variant of findModuleByDependency: a specifier that matches
\* nothing falls back to the first record
FindOrFirst(mods, dep) ==
  LET exact == {i \in DOMAIN mods : ExactFileMatch(mods[i], dep)}
      partial == {i \in DOMAIN mods :
                    DirMatch(mods[i], dep) \/ NameMatch(mods[i], dep)}
  IN IF exact # {} THEN MinOf(exact)
     ELSE IF partial # {} THEN MinOf(partial)
     ELSE IF Len(mods) > 0 THEN 1 ELSE NoModule

\* findModuleByDependency: the first record, in insertion order, that the
\* first loop accepts; failing that the first record the second loop accepts
findModuleByDependency(mods, dep) ==
  LET exact == {i \in DOMAIN mods : ExactFileMatch(mods[i], dep)}
      partial == {i \in DOMAIN mods :
                    DirMatch(mods[i], dep) \/ NameMatch(mods[i], dep)}
  IN IF exact # {} THEN MinOf(exact)
     ELSE IF partial # {} THEN MinOf(partial)
     ELSE NoModule

\* ---------------------------------------------------------------- reports
\* faulty variant of EdgeOfDep: an edge from a module to itself is filtered
EdgeUnlessSelf(mods, i, dep) ==
  LET t == findModuleByDependency(mods, dep)
  IN IF t # NoModule /\ t # i
       THEN << [source |-> mods[i].path, dep |-> dep, target |-> mods[t].path] >>
       ELSE << >>

\* generateMermaidDiagram, body of module.dependencies.forEach: the edge
\* lines one specifier of record i adds (none when it resolves to nothing)
EdgeOfDep(mods, i, dep) ==
  LET t == findModuleByDependency(mods, dep)
  IN IF t # NoModule
       THEN << [source |-> mods[i].path, dep |-> dep, target |-> mods[t].path] >>
       ELSE << >>

RECURSIVE EdgesOfDeps(_, _, _)
EdgesOfDeps(mods, i, deps) ==
  IF deps = << >> THEN << >>
  ELSE EdgeOfDep(mods, i, Head(deps)) \o EdgesOfDeps(mods, i, Tail(deps))

RECURSIVE EdgesFrom(_, _)
\* generateMermaidDiagram, this.modules.forEach from record i on
EdgesFrom(mods, i) ==
  IF i > Len(mods) THEN << >>
  ELSE EdgesOfDeps(mods, i, mods[i].dependencies) \o EdgesFrom(mods, i + 1)

\* the text of an edge line: `  ${sourceId} --> ${targetId}`
EdgeLine(e) == <<sanitizeNodeId(e.source), sanitizeNodeId(e.target)>>

Has(deps, s) == \E k \in DOMAIN deps : deps[k] = s

\* generateDependencyMatrix: hasDependency of one cell
hasDependency(sourceModule, targetModule) ==
  \/ Has(sourceModule.dependencies, targetModule.path)
  \/ Has(sourceModule.dependencies, targetModule.name)
  \/ Has(sourceModule.dependencies, StripTs(targetModule.path))
  \/ Has(sourceModule.dependencies, StripJs(targetModule.path))

\* generateDependencyMatrix: the cells, rows and columns in insertion order
DependencyMatrix(mods) ==
  [c \in (DOMAIN mods) \X (DOMAIN mods) |->
     hasDependency(mods[c[1]], mods[c[2]])]

\* ------------------------------------------------------------ the inputs
\* Paths walk() can return, and the specifiers a file can import.
P_helper == <<"p", "/", "u", "/", "h", ".", "t", "s">>
P_helperx == <<"p", "/", "a", "/", "h", "x", ".", "t", "s">>
P_k == <<"p", "/", "u", "/", "k", ".", "t", "s">>
P_m == <<"p", "/", "a", "/", "m", ".", "j", "s">>
P_page == <<"p", "/", "v", ".", "h", "t", "m", "l">>
ModulePaths == {P_helper, P_helperx, P_k, P_m, P_page}

D_relHelper == <<".", "/", "u", "/", "h">>
D_dirHelperx == <<"u", "/", "h", "x">>
D_kts == <<"k", ".", "t", "s">>
D_bare == <<"r", "x">>
D_external == <<".", "/", "z", "/", "q">>
D_pathHelper == <<"p", "/", "u", "/", "h">>
Specifiers == <<D_relHelper, D_dirHelperx, D_kts, D_bare, D_external,
                D_pathHelper>>

AllModes == {"module", "script", "unambiguous"}
File(readable, length, parses, cleanParses, ast) ==
  [readable |-> readable, length |-> length, parses |-> parses,
   cleanParses |-> cleanParses, ast |-> ast]

Return(kids) == Plain("ReturnStatement", kids)
Block(kids) == Plain("BlockStatement", kids)
Call(name, argc) == Node("CallExpression", name, NoName, argc, FALSE, << >>)
Import(src) == Node("ImportDeclaration", NoName, src, 0, FALSE, << >>)

\* function add(a,b){return a+b;} export function calc(x){ if (x>0)
\* { return add(x,1); } else { return add(x,-1); } }
ScenarioA ==
  File(TRUE, 114, AllModes, TRUE,
    Plain("Program", <<
      Named("FunctionDeclaration", <<"a", "d", "d">>,
            << Block(<< Return(<< >>) >>) >>),
      Plain("ExportNamedDeclaration", <<
        Named("FunctionDeclaration", <<"c", "a", "l", "c">>, <<
          Block(<<
            Plain("IfStatement", <<
              Block(<< Return(<< Call(<<"a", "d", "d">>, 2) >>) >>),
              Block(<< Return(<< Call(<<"a", "d", "d">>, 2) >>) >>) >>) >>) >>)
      >>) >>))

\* a text no parse mode accepts, with or without its comments
Unparsable == File(TRUE, 7, {}, FALSE, Plain("Program", << >>))
\* a file readFile fails on
Unreadable == File(FALSE, 0, {}, FALSE, Plain("Program", << >>))
\* markup: read, not a code file for parseDeps, rejected by the parser
Markup == File(TRUE, 40, {}, FALSE, Plain("Program", << >>))
\* a tree whose traversal raises part-way
Breaking ==
  File(TRUE, 90, AllModes, TRUE,
    Plain("Program", <<
      Import(D_relHelper),
      Named("ClassDeclaration", <<"K">>, << >>),
      Named("FunctionDeclaration", <<"f">>, <<
        Block(<< Plain("WhileStatement", << >>),
                 Named("LogicalExpression", <<"&", "&">>, << >>) >>) >>),
      Plain("Malformed", << >>),
      Import(D_bare),
      Named("FunctionDeclaration", <<"g">>, << >>) >>))

\* the content of the file at a path, unless the file is the importing one
DefaultFile(p) ==
  CASE p = P_helper -> ScenarioA
    [] p = P_helperx -> Unparsable
    [] p = P_k -> Unreadable
    [] p = P_m -> Breaking
    [] OTHER -> Markup

\* a file that consists of one import declaration per specifier
ImporterFile(deps) ==
  File(TRUE, 30 * Len(deps), AllModes, TRUE,
       Plain("Program", [k \in DOMAIN deps |-> Import(deps[k])]))

RECURSIVE DistinctSeqs(_, _)
\* the sequences of at most n pairwise different elements of S
DistinctSeqs(S, n) ==
  IF n = 0 THEN {<< >>}
  ELSE LET shorter == DistinctSeqs(S, n - 1)
       IN shorter \cup
          UNION {{Append(q, x) : x \in S \ {q[k] : k \in DOMAIN q}} :
                   q \in {r \in shorter : Len(r) = n - 1}}

Range(q) == {q[k] : k \in DOMAIN q}

RECURSIVE Pick(_, _)
\* the elements of xs at the positions S, in the order of xs
Pick(xs, S) ==
  IF S = {} THEN << >>
  ELSE LET k == CHOOSE a \in S : \A b \in S : a <= b
       IN <<xs[k]>> \o Pick(xs, S \ {k})

\* the import lists of the importing file: at most MaxDeps different
\* specifiers, in the order of Specifiers
ImportLists ==
  {Pick(Specifiers, S) :
     S \in {T \in SUBSET DOMAIN Specifiers : Cardinality(T) <= MaxDeps}}

\* The files the complexity score is examined on: a program of at most
\* MaxItems statements, each a construct or a function whose body is empty,
\* one construct or one nested function.
Constructs ==
  {Plain("IfStatement", << >>),
   Named("LogicalExpression", <<"&", "&">>, << >>),
   Plain("AwaitExpression", << >>),
   Named("ClassDeclaration", <<"K">>, << >>)}
Fn(name, body) == Named("FunctionDeclaration", name, << Block(body) >>)
InnerFns == {Fn(<<"g">>, body) : body \in {<< >>} \cup {<<c>> : c \in Constructs}}
OuterFns ==
  {Fn(<<"f">>, body) :
     body \in {<< >>} \cup {<<c>> : c \in Constructs \cup InnerFns}}
Statements == Constructs \cup OuterFns
Programs ==
  UNION {[1..n -> Statements] : n \in 0..MaxItems}
ScoredFiles ==
  {File(TRUE, 1 + 16 * Len(items), AllModes, TRUE, Plain("Program", items)) :
     items \in Programs}
  \cup {Unreadable, Unparsable}
P_scored == <<"p", "/", "s", ".", "t", "s">>

\* The files the branch constructs are examined on: a program of at most
\* MaxBranches statements, each one branch, loop, switch or try construct
\* that stands at module top level or in the body of a function.
MaxBranches == 2
Switch ==
  Plain("SwitchStatement",
        << Node("SwitchCase", NoName, NoName, 0, TRUE, << >>),
           Node("SwitchCase", NoName, NoName, 0, FALSE, << >>) >>)
Try == Plain("TryStatement", << Block(<< >>), Plain("CatchClause", << >>) >>)
BranchConstructs ==
  {Plain(type, << >>) :
     type \in {"IfStatement", "WhileStatement", "DoWhileStatement",
               "ForStatement", "ForInStatement", "ForOfStatement"}}
  \cup {Switch, Try}
BranchStatements ==
  BranchConstructs \cup {Fn(<<"f">>, <<c>>) : c \in BranchConstructs}
BranchFiles ==
  {File(TRUE, 1 + 16 * Len(items), AllModes, TRUE, Plain("Program", items)) :
     items \in UNION {[1..n -> BranchStatements] : n \in 0..MaxBranches}}
\* The files the extraction of specifiers is examined on: a program of at
\* most MaxStatements statements, each an import, a named re-export with or
\* without a source, a wildcard re-export or a call; a call names require,
\* __webpack_require__ or another function and has no argument, one
\* argument that is a string literal or not, or two arguments.
MaxStatements == 2
S_a == <<"a">>
Sources == {S_a, EmptyStr}
LOAD == <<"l", "o", "a", "d">>
CallOf(name, src, argc) == Node("CallExpression", name, src, argc, FALSE, << >>)
DepStatements ==
  {Node(type, NoName, src, 0, FALSE, << >>) :
     type \in {"ImportDeclaration", "ExportNamedDeclaration",
               "ExportAllDeclaration"},
     src \in Sources}
  \cup {Node("ExportNamedDeclaration", NoName, NoName, 0, FALSE, << >>)}
  \cup {CallOf(name, src, 1) :
          name \in {REQUIRE, WEBPACK_REQUIRE}, src \in Sources \cup {NoName}}
  \cup {CallOf(name, S_a, 2) : name \in {REQUIRE, WEBPACK_REQUIRE}}
  \cup {CallOf(REQUIRE, NoName, 0), CallOf(LOAD, S_a, 1)}
DepFiles ==
  {File(TRUE, 1 + 16 * Len(items), AllModes, TRUE, Plain("Program", items)) :
     items \in UNION {[1..n -> DepStatements] : n \in 0..MaxStatements}}
\* ---------------------------------------------------------------- layers
UpperCase == <<"A", "B", "C", "D", "E", "F", "G", "H", "I", "J", "K", "L", "M",
               "N", "O", "P", "Q", "R", "S", "T", "U", "V", "W", "X", "Y", "Z">>
LowerCase == <<"a", "b", "c", "d", "e", "f", "g", "h", "i", "j", "k", "l", "m",
               "n", "o", "p", "q", "r", "s", "t", "u", "v", "w", "x", "y", "z">>

\* the lower-case letter of each upper-case letter
LowerOf ==
  [c \in {UpperCase[k] : k \in DOMAIN UpperCase} |->
     LowerCase[CHOOSE k \in DOMAIN UpperCase : UpperCase[k] = c]]

\* String.prototype.toLowerCase
toLowerCase(s) ==
  [i \in DOMAIN s |-> IF s[i] \in DOMAIN LowerOf THEN LowerOf[s[i]] ELSE s[i]]

\* s.includes(kw) for some kw of kws
IncludesAny(s, kws) == \E kw \in kws : Includes(s, kw)

\* module.exports.some((e) => e.toLowerCase().includes(kw)) for some kw of kws
ExportsInclude(module, kws) ==
  \E k \in DOMAIN module.exports :
    IncludesAny(toLowerCase(module.exports[k]), kws)

\* the null classifyByContent returns
NoLabel == "<null>"

\* classifyByContent: the texts looked for in the lower-cased exported names
\* hasApiFunctions
ApiExportWords == {<<"f", "e", "t", "c", "h">>, <<"a", "p", "i">>, <<"s", "e",
  "r", "v", "i", "c", "e">>}
\* hasUiComponents
UiExportWords == {<<"c", "o", "m", "p", "o", "n", "e", "n", "t">>, <<"v", "i",
  "e", "w">>, <<"h", "o", "o", "k">>}
\* hasDataFunctions
DataExportWords == {<<"m", "o", "d", "e", "l">>, <<"s", "t", "o", "r", "e">>,
  <<"r", "e", "p", "o", "s", "i", "t", "o", "r", "y">>}
\* hasUtilFunctions
UtilExportWords == {<<"u", "t", "i", "l">>, <<"h", "e", "l", "p", "e", "r">>,
  <<"f", "o", "r", "m", "a", "t">>}
\* classifyByContent: the texts looked for in the lower-cased path
\* of the API Layer test
ApiPathWords == {<<"a", "p", "i">>, <<"s", "e", "r", "v", "i", "c", "e">>}
\* of the UI Components test
UiPathWords == {<<"c", "o", "m", "p", "o", "n", "e", "n", "t">>, <<"u", "i">>}
\* of the Data Layer test
DataPathWords == {<<"m", "o", "d", "e", "l">>, <<"d", "a", "t", "a">>}

\* faulty variant of classifyByContent: the exported names or the path
\* decide, instead of both
ClassifyByContentEither(module) ==
  LET path == toLowerCase(module.path)
  IN IF ExportsInclude(module, ApiExportWords) \/ IncludesAny(path, ApiPathWords)
       THEN "API Layer"
     ELSE IF ExportsInclude(module, UiExportWords) \/ IncludesAny(path, UiPathWords)
       THEN "UI Components"
     ELSE IF ExportsInclude(module, DataExportWords)
               \/ IncludesAny(path, DataPathWords)
       THEN "Data Layer"
     ELSE IF ExportsInclude(module, UtilExportWords) THEN "Utilities"
     ELSE NoLabel

\* classifyByContent
classifyByContent(module) ==
  LET path == toLowerCase(module.path)
      hasApiFunctions == ExportsInclude(module, ApiExportWords)
      hasUiComponents == ExportsInclude(module, UiExportWords)
      hasDataFunctions == ExportsInclude(module, DataExportWords)
      hasUtilFunctions == ExportsInclude(module, UtilExportWords)
  IN IF hasApiFunctions /\ IncludesAny(path, ApiPathWords) THEN "API Layer"
     ELSE IF hasUiComponents /\ IncludesAny(path, UiPathWords)
       THEN "UI Components"
     ELSE IF hasDataFunctions /\ IncludesAny(path, DataPathWords)
       THEN "Data Layer"
     ELSE IF hasUtilFunctions THEN "Utilities"
     ELSE NoLabel

\* classifyModule, the chain of if statements after the content rule, in
\* order: the label an if returns, the texts it looks for in the path, in
\* the name and in the exported names
LabelRules ==
  <<
    [label |-> "FSD: App Layer", paths |-> {<<"/", "a", "p", "p", "/">>},
     names |-> {}, exports |-> {}],
    [label |-> "FSD: Processes", paths |-> {<<"/", "p", "r", "o", "c",
     "e", "s", "s", "e", "s", "/">>}, names |-> {}, exports |-> {}],
    [label |-> "FSD: Pages", paths |-> {<<"/", "p", "a", "g", "e", "s",
     "/">>}, names |-> {}, exports |-> {}],
    [label |-> "FSD: Widgets", paths |-> {<<"/", "w", "i", "d", "g", "e",
     "t", "s", "/">>}, names |-> {}, exports |-> {}],
    [label |-> "FSD: Features", paths |-> {<<"/", "f", "e", "a", "t", "u",
     "r", "e", "s", "/">>}, names |-> {}, exports |-> {}],
    [label |-> "FSD: Entities", paths |-> {<<"/", "e", "n", "t", "i", "t",
     "i", "e", "s", "/">>}, names |-> {}, exports |-> {}],
    [label |-> "FSD: Shared", paths |-> {<<"/", "s", "h", "a", "r", "e",
     "d", "/">>}, names |-> {}, exports |-> {}],
    [label |-> "DDD: Domain", paths |-> {<<"/", "d", "o", "m", "a", "i",
     "n", "/">>}, names |-> {}, exports |-> {}],
    [label |-> "DDD: Application", paths |-> {<<"/", "a", "p", "p", "l",
     "i", "c", "a", "t", "i", "o", "n", "/">>}, names |-> {}, exports |->
     {}],
    [label |-> "DDD: Infrastructure", paths |-> {<<"/", "i", "n", "f",
     "r", "a", "s", "t", "r", "u", "c", "t", "u", "r", "e", "/">>}, names
     |-> {}, exports |-> {}],
    [label |-> "DDD: Presentation", paths |-> {<<"/", "p", "r", "e", "s",
     "e", "n", "t", "a", "t", "i", "o", "n", "/">>}, names |-> {}, exports
     |-> {}],
    [label |-> "DDD: Aggregate", paths |-> {<<"/", "a", "g", "g", "r",
     "e", "g", "a", "t", "e", "/">>}, names |-> {}, exports |-> {}],
    [label |-> "DDD: Repository", paths |-> {<<"/", "r", "e", "p", "o",
     "s", "i", "t", "o", "r", "y", "/">>}, names |-> {}, exports |-> {}],
    [label |-> "DDD: Service", paths |-> {<<"/", "s", "e", "r", "v", "i",
     "c", "e", "/">>}, names |-> {}, exports |-> {}],
    [label |-> "DDD: Value Object", paths |-> {<<"/", "v", "a", "l", "u",
     "e", "o", "b", "j", "e", "c", "t", "/">>}, names |-> {<<"v", "a",
     "l", "u", "e", "o", "b", "j", "e", "c", "t">>}, exports |-> {}],
    [label |-> "DDD: Entity", paths |-> {<<"/", "e", "n", "t", "i", "t",
     "y", "/">>}, names |-> {<<"e", "n", "t", "i", "t", "y">>}, exports
     |-> {}],
    [label |-> "Atomic: Atom", paths |-> {<<"/", "a", "t", "o", "m", "s",
     "/">>}, names |-> {<<"a", "t", "o", "m">>}, exports |-> {}],
    [label |-> "Atomic: Molecule", paths |-> {<<"/", "m", "o", "l", "e",
     "c", "u", "l", "e", "s", "/">>}, names |-> {<<"m", "o", "l", "e",
     "c", "u", "l", "e">>}, exports |-> {}],
    [label |-> "Atomic: Organism", paths |-> {<<"/", "o", "r", "g", "a",
     "n", "i", "s", "m", "s", "/">>}, names |-> {<<"o", "r", "g", "a",
     "n", "i", "s", "m">>}, exports |-> {}],
    [label |-> "Atomic: Template", paths |-> {<<"/", "t", "e", "m", "p",
     "l", "a", "t", "e", "s", "/">>}, names |-> {<<"t", "e", "m", "p",
     "l", "a", "t", "e">>}, exports |-> {}],
    [label |-> "Atomic: Page", paths |-> {<<"/", "p", "a", "g", "e", "s",
     "/">>}, names |-> {<<"p", "a", "g", "e">>}, exports |-> {}],
    [label |-> "API Layer", paths |-> {<<"/", "a", "p", "i", "/">>, <<"/",
     "s", "e", "r", "v", "i", "c", "e">>, <<"/", "c", "l", "i", "e", "n",
     "t">>, <<"/", "e", "n", "d", "p", "o", "i", "n", "t">>}, names |->
     {<<"a", "p", "i">>, <<"s", "e", "r", "v", "i", "c", "e">>, <<"c",
     "l", "i", "e", "n", "t">>, <<"e", "n", "d", "p", "o", "i", "n",
     "t">>, <<"c", "o", "n", "t", "r", "o", "l", "l", "e", "r">>}, exports
     |-> {}],
    [label |-> "UI Components", paths |-> {<<"/", "c", "o", "m", "p", "o",
     "n", "e", "n", "t">>, <<"/", "u", "i", "/">>, <<"/", "v", "i", "e",
     "w">>, <<"/", "p", "a", "g", "e", "s">>, <<"/", "s", "c", "r", "e",
     "e", "n", "s">>}, names |-> {<<"c", "o", "m", "p", "o", "n", "e",
     "n", "t">>, <<"v", "i", "e", "w">>, <<"p", "a", "g", "e">>, <<"s",
     "c", "r", "e", "e", "n">>, <<"h", "o", "o", "k">>}, exports |->
     {<<"c", "o", "m", "p", "o", "n", "e", "n", "t">>}],
    [label |-> "Data Layer", paths |-> {<<"/", "m", "o", "d", "e", "l">>,
     <<"/", "s", "t", "o", "r", "e">>, <<"/", "d", "a", "t", "a", "/">>,
     <<"/", "r", "e", "p", "o", "s", "i", "t", "o", "r", "y">>, <<"/",
     "d", "a", "o">>}, names |-> {<<"m", "o", "d", "e", "l">>, <<"s", "t",
     "o", "r", "e">>, <<"r", "e", "p", "o", "s", "i", "t", "o", "r",
     "y">>, <<"d", "a", "o">>, <<"s", "c", "h", "e", "m", "a">>}, exports
     |-> {}],
    [label |-> "Utilities", paths |-> {<<"/", "u", "t", "i", "l">>, <<"/",
     "h", "e", "l", "p", "e", "r">>, <<"/", "l", "i", "b", "/">>, <<"/",
     "u", "t", "i", "l", "s">>}, names |-> {<<"u", "t", "i", "l">>, <<"h",
     "e", "l", "p", "e", "r">>, <<"t", "o", "o", "l">>, <<"u", "t", "i",
     "l", "s">>}, exports |-> {}],
    [label |-> "Configuration", paths |-> {<<"/", "c", "o", "n", "f", "i",
     "g">>, <<"/", "s", "e", "t", "t", "i", "n", "g">>, <<"/", "e", "n",
     "v">>}, names |-> {<<"c", "o", "n", "f", "i", "g">>, <<"s", "e", "t",
     "t", "i", "n", "g">>, <<"e", "n", "v", "i", "r", "o", "n", "m", "e",
     "n", "t">>, <<"e", "n", "v">>}, exports |-> {}],
    [label |-> "Infrastructure", paths |-> {<<"/", "m", "i", "d", "d",
     "l", "e", "w", "a", "r", "e">>, <<"/", "s", "e", "r", "v", "e",
     "r">>, <<"/", "p", "l", "u", "g", "i", "n">>}, names |-> {<<"m", "i",
     "d", "d", "l", "e", "w", "a", "r", "e">>, <<"s", "e", "r", "v", "e",
     "r">>, <<"p", "l", "u", "g", "i", "n">>}, exports |-> {}]
  >>

\* the condition of one if of the chain, path and name the lower-cased
\* path and name of the record
RuleApplies(r, path, name, module) ==
  \/ IncludesAny(path, r.paths)
  \/ IncludesAny(name, r.names)
  \/ ExportsInclude(module, r.exports)

\* classifyModule
classifyModule(module) ==
  LET path == toLowerCase(module.path)
      name == toLowerCase(module.name)
      contentBasedClassification == classifyByContent(module)
      hits == {k \in DOMAIN LabelRules :
                 RuleApplies(LabelRules[k], path, name, module)}
  IN IF contentBasedClassification # NoLabel THEN contentBasedClassification
     ELSE IF hits # {} THEN LabelRules[MinOf(hits)].label
     ELSE IF module.complexity > 15 \/ Len(module.functions) > 8
               \/ Len(module.classes) > 2
       THEN "Business Logic"
     ELSE "Unknown"

\* categorizeModules, the names of the predefined layers, in order
LayerNames == <<"API Layer", "Business Logic", "Data Layer", "UI Components",
                "Utilities", "Configuration", "Infrastructure", "Unknown">>

\* faulty variant of TargetLayer: a label that names no predefined layer
\* finds no layer
TargetLayerIfNamed(label) ==
  IF \E k \in DOMAIN LayerNames : LayerNames[k] = label
    THEN CHOOSE k \in DOMAIN LayerNames : LayerNames[k] = label
    ELSE 0

\* layers.find((l) => l.name === layer) || layers[layers.length - 1]
TargetLayer(label) ==
  IF \E k \in DOMAIN LayerNames : LayerNames[k] = label
    THEN CHOOSE k \in DOMAIN LayerNames : LayerNames[k] = label
    ELSE Len(LayerNames)

\* categorizeModules: every record pushed to its target layer in insertion
\* order, the layers without modules filtered out
categorizeModules(mods) ==
  LET target == [j \in DOMAIN mods |-> TargetLayer(classifyModule(mods[j]))]
      filled ==
        [k \in DOMAIN LayerNames |->
           [name |-> LayerNames[k],
            modules |-> Pick(mods, {j \in DOMAIN mods : target[j] = k})]]
  IN SelectSeq(filled, LAMBDA layer : Len(layer.modules) > 0)

RECURSIVE InsertDescending(_, _)
\* m put into a list sorted by (a, b) => b.complexity - a.complexity, after
\* the records that do not sort after it (the sort is stable)
InsertDescending(sorted, m) ==
  IF sorted = << >> THEN <<m>>
  ELSE IF Head(sorted).complexity >= m.complexity
    THEN <<Head(sorted)>> \o InsertDescending(Tail(sorted), m)
  ELSE <<m>> \o sorted

RECURSIVE SortDescending(_, _)
\* Array.from(this.modules.values()).sort((a, b) => b.complexity - a.complexity)
SortDescending(sorted, mods) ==
  IF mods = << >> THEN sorted
  ELSE SortDescending(InsertDescending(sorted, Head(mods)), Tail(mods))

\* xs.slice(0, n)
Slice(xs, n) == SubSeq(xs, 1, IF Len(xs) < n THEN Len(xs) ELSE n)

\* the line of a recommendation list: `name` (complexity: n)
ModuleLine(m) == [name |-> m.name, complexity |-> m.complexity]

\* faulty variant of generateComplexityReport: the records are not sorted
ComplexityReportUnsorted(mods) ==
  LET critical == SelectSeq(mods, LAMBDA m : m.complexity > 30)
      high == SelectSeq(mods, LAMBDA m : m.complexity > 20 /\ m.complexity <= 30)
      low == SelectSeq(mods, LAMBDA m : m.complexity <= 10)
      medium == SelectSeq(mods, LAMBDA m : m.complexity > 10 /\ m.complexity <= 20)
  IN [top |-> [k \in DOMAIN Slice(mods, 10) |-> ModuleLine(mods[k])],
      distribution |-> [low |-> Len(low), medium |-> Len(medium),
                        high |-> Len(high), critical |-> Len(critical)],
      critical |-> [k \in DOMAIN Slice(critical, 5) |-> ModuleLine(critical[k])],
      high |-> [k \in DOMAIN Slice(high, 5) |-> ModuleLine(high[k])]]

\* generateComplexityReport: the rows of the table of the most complex
\* modules, the four counts of the distribution, and the lines of the two
\* lists of the recommendations
generateComplexityReport(mods) ==
  LET modules_ == SortDescending(<< >>, mods)
      critical == SelectSeq(modules_, LAMBDA m : m.complexity > 30)
      high == SelectSeq(modules_, LAMBDA m : m.complexity > 20 /\ m.complexity <= 30)
      low == SelectSeq(modules_, LAMBDA m : m.complexity <= 10)
      medium == SelectSeq(modules_, LAMBDA m : m.complexity > 10 /\ m.complexity <= 20)
  IN [top |-> [k \in DOMAIN Slice(modules_, 10) |-> ModuleLine(modules_[k])],
      distribution |-> [low |-> Len(low), medium |-> Len(medium),
                        high |-> Len(high), critical |-> Len(critical)],
      critical |-> [k \in DOMAIN Slice(critical, 5) |-> ModuleLine(critical[k])],
      high |-> [k \in DOMAIN Slice(high, 5) |-> ModuleLine(high[k])]]

\* faulty variant of ComplexityGlyph: each tier begins at its threshold
ComplexityGlyphFromThreshold(complexity) ==
  IF complexity >= 30 THEN "red"
  ELSE IF complexity >= 20 THEN "orange"
  ELSE IF complexity >= 10 THEN "yellow"
  ELSE "green"

\* generateMermaidDiagram, the glyph of a module node: the red, orange,
\* yellow or green circle
ComplexityGlyph(complexity) ==
  IF complexity > 30 THEN "red"
  ELSE IF complexity > 20 THEN "orange"
  ELSE IF complexity > 10 THEN "yellow"
  ELSE "green"

\* generateMermaidDiagram: the module nodes of the subgraphs, layer by layer
DiagramNodes(ls) ==
  Concat([l \in DOMAIN ls |->
            [k \in DOMAIN ls[l].modules |->
               LET module == ls[l].modules[k]
               IN [id |-> sanitizeNodeId(module.path),
                   glyph |-> ComplexityGlyph(module.complexity),
                   name |-> module.name,
                   complexity |-> module.complexity,
                   subgraph |-> l]]])
\* The files the layers are examined on: a file that exports one function,
\* a file of sixteen if statements, a file no parse accepts.
Exporting(name) ==
  File(TRUE, 60, AllModes, TRUE,
    Plain("Program", <<
      Plain("ExportNamedDeclaration", <<
        Named("FunctionDeclaration", name, << Block(<< >>) >>) >>) >>))
E_run == <<"r", "u", "n">>
E_fetch == <<"F", "e", "t", "c", "h", "X">>
E_view == <<"V", "i", "e", "w", "X">>
E_store == <<"S", "t", "o", "r", "e", "X">>
E_format == <<"F", "o", "r", "m", "a", "t", "X">>
Branching ==
  File(TRUE, 400, AllModes, TRUE,
    Plain("Program", [k \in 1..16 |-> Plain("IfStatement", << >>)]))
LayerFiles ==
  {Exporting(name) : name \in {E_run, E_fetch, E_view, E_store, E_format}}
  \cup {Branching, Unparsable}

P_client == <<"w", "/", "s", "r", "c", "/", "a", "p", "i", "/", "c", "l", "i", "e", "n", "t", ".", "t", "s">>
P_appClient == <<"w", "/", "a", "p", "p", "/", "s", "r", "c", "/", "a", "p", "i", "/", "c", "l", "i", "e", "n", "t", ".", "t", "s">>
P_uiApiform == <<"w", "/", "u", "i", "/", "a", "p", "i", "f", "o", "r", "m", ".", "t", "s">>
P_plain == <<"w", "/", "q", "/", "x", ".", "t", "s">>
P_entityCard == <<"w", "/", "a", "t", "o", "m", "s", "/", "e", "n", "t", "i", "t", "y", "c", "a", "r", "d", ".", "t", "s">>
LayerPaths == {P_client, P_appClient, P_uiApiform, P_plain, P_entityCard}

\* The files the complexity bands are examined on: n if statements at top
\* level, at the paths w/q/a.ts, w/q/b.ts, ...
Ifs(n) ==
  File(TRUE, 25 * n, AllModes, TRUE,
    Plain("Program", [k \in 1..n |-> Plain("IfStatement", << >>)]))
BandPath(k) == <<"w", "/", "q", "/", LowerCase[k], ".", "t", "s">>
OtherScores == {5, 25, 40}

\* The files the tiers are examined on: a batch of at most MaxTierFiles
\* files of if statements, as many as a score at or next to a threshold.
MaxTierFiles == 2
TierScores == {0, 10, 11, 20, 21, 30, 31}
\* ---------------------------------------------------------- deobfuscation
\* obfuscationPatterns, in the order of the array; the confidence in
\* hundredths
obfuscationPatterns ==
  << [name |-> "webpack", confidence |-> 90],
     [name |-> "uglify", confidence |-> 70],
     [name |-> "terser", confidence |-> 80],
     [name |-> "jsconfuser", confidence |-> 85],
     [name |-> "custom_hex", confidence |-> 60],
     [name |-> "eval_obfuscation", confidence |-> 95] >>
PatternNames == {obfuscationPatterns[k].name : k \in DOMAIN obfuscationPatterns}

\* A text is the code smartDeobfuscate was given followed by the names of
\* the patterns whose deobfuscate has rewritten it, in order.
Original == << >>
\* the text pattern.deobfuscate(text) returns
Deobfuscated(text, name) == Append(text, name)

RECURSIVE InsertByScore(_, _)
\* p put into a list sorted by (a, b) => b.score - a.score (stable)
InsertByScore(sorted, p) ==
  IF sorted = << >> THEN <<p>>
  ELSE IF Head(sorted).confidence >= p.confidence
    THEN <<Head(sorted)>> \o InsertByScore(Tail(sorted), p)
  ELSE <<p>> \o sorted

RECURSIVE SortByScore(_, _)
SortByScore(sorted, ps) ==
  IF ps = << >> THEN sorted
  ELSE SortByScore(InsertByScore(sorted, Head(ps)), Tail(ps))

\* faulty variant of detectObfuscationType: the detected patterns are
\* left in the order of the array
DetectInArrayOrder(detects) ==
  SelectSeq(obfuscationPatterns, LAMBDA p : p.name \in detects)

\* detectObfuscationType(code): the patterns whose detect(code) is true,
\* sorted by descending confidence; detects is the set of their names
detectObfuscationType(detects) ==
  SortByScore(<< >>,
              SelectSeq(obfuscationPatterns, LAMBDA p : p.name \in detects))

\* --------------------------------------------------------------- the state
VARIABLES
  files,    \* the paths walk() returned, in enumeration order
  disk,     \* the file at each path
  graph,    \* buildGraph's DepGraph: path -> dependency set
  modules,  \* ArchitectureAnalyzer.modules, in insertion order
  pc,       \* the step run() is at
  i,        \* the position of the running for-of loop in files
  edges,    \* the dependency edges of the rendered diagram, in order
  matrix,   \* the cells of the rendered dependency matrix
  attempts, \* the parse calls parseDeps has made for each path, in order
  layers,   \* the layers of the rendered report, each with its records
  report,   \* the complexity report at the end of the rendered report
  accepted, \* the names of the patterns whose detect accepts the code given
  patterns, \* smartDeobfuscate's patterns, as detectObfuscationType returned
  result,   \* smartDeobfuscate's result
  calls,    \* the calls of pattern.deobfuscate made so far, in order
  nodes,    \* the module nodes of the rendered diagram, in order
  env,      \* what run finds around it: the service, the root, the outputs
  docs,     \* the documents run has written so far
  config,   \* RuntimeAnalyzer.config
  events,   \* RuntimeAnalyzer.events
  runtimeEvents, \* window.__runtimeEvents of the instrumented page
  arrived,  \* every event RuntimeAnalyzer.addEvent has accepted, in order
  clock     \* the number of events made so far

vars == <<files, disk, graph, modules, pc, i, edges, matrix, attempts, layers,
          report, accepted, patterns, result, calls, nodes, env, docs, config,
          events, runtimeEvents, arrived, clock>>

\* the state of smartDeobfuscate
deobfuscation == <<accepted, patterns, result, calls>>
\* the state of run
pipeline == <<files, disk, graph, modules, edges, matrix, attempts, layers,
              report, nodes>>
\* what surrounds run, and what it has written
surroundings == <<env, docs>>
\* the state of a RuntimeAnalyzer and of the page its hooks run in
runtime == <<config, events, runtimeEvents, arrived, clock>>

\* the surroundings in which run reaches buildGraph with these files
Reached(paths) ==
  [ollama |-> TRUE, root |-> TRUE, dirs |-> TRUE, write |-> TRUE,
   entries |-> paths]

\* new RuntimeAnalyzer(): the default configuration, no event yet
DefaultMaxEvents == 10000
NoRuntime ==
  /\ config = [maxEvents |-> DefaultMaxEvents]
  /\ events = << >>
  /\ runtimeEvents = << >>
  /\ arrived = << >>
  /\ clock = 0

\* run before buildGraph: nothing is extracted, analysed or rendered yet
BeforeBuildGraph ==
  /\ graph = << >>
  /\ modules = << >>
  /\ pc = "buildGraph"
  /\ i = 1
  /\ edges = << >>
  /\ matrix = << >>
  /\ attempts = << >>
  /\ layers = << >>
  /\ report = << >>
  /\ nodes = << >>
  /\ accepted = {}
  /\ patterns = << >>
  /\ result = Original
  /\ calls = << >>
  /\ env = Reached(files)
  /\ docs = {}
  /\ NoRuntime

Init ==
  \E paths \in DistinctSeqs(ModulePaths, MaxFiles) \ {<< >>} :
  \E k \in 0..Len(paths) :
  \E deps \in ImportLists :
    /\ (k = 0 => deps = << >>)
    /\ files = paths
    /\ disk = [p \in Range(paths) |->
                 IF k # 0 /\ p = paths[k] THEN ImporterFile(deps)
                 ELSE DefaultFile(p)]
    /\ BeforeBuildGraph

\* faulty variant of MapSet: the map keeps one entry, whatever the key
MapSetOneSlot(mods, info) == <<info>>
\* Map.prototype.set: a new key is appended, an existing one keeps its place
MapSet(mods, info) ==
  IF \E k \in DOMAIN mods : mods[k].path = info.path
    THEN [k \in DOMAIN mods |->
            IF mods[k].path = info.path THEN info ELSE mods[k]]
    ELSE Append(mods, info)

\* buildGraph, one pass of its loop: graph[f] = await parseDeps(f)
BuildGraphStep ==
  /\ pc = "buildGraph"
  /\ i <= Len(files)
  /\ graph' = [p \in DOMAIN graph \cup {files[i]} |->
                 IF p = files[i] THEN parseDeps(files[i], disk[files[i]])
                 ELSE graph[p]]
  /\ attempts' = [p \in DOMAIN attempts \cup {files[i]} |->
                    IF p = files[i] THEN ParseAttempts(files[i], disk[files[i]])
                    ELSE attempts[p]]
  /\ i' = i + 1
  /\ UNCHANGED <<files, disk, modules, pc, edges, matrix, layers, report,
                 nodes>>
  /\ UNCHANGED <<deobfuscation, surroundings, runtime>>

\* run, step 4: generateArchitectureDocs creates the analyzer and calls
\* analyzeProject
GenerateArchitectureDocs ==
  /\ pc = "buildGraph"
  /\ i > Len(files)
  /\ pc' = "analyzeProject"
  /\ i' = 1
  /\ modules' = << >>
  /\ UNCHANGED <<files, disk, graph, edges, matrix, attempts, layers, report,
                 nodes>>
  /\ UNCHANGED <<deobfuscation, surroundings, runtime>>

\* analyzeProject, one pass of its loop; an exception of analyzeModule is
\* not caught here and ends generateArchitectureDocs
AnalyzeProjectStep ==
  /\ pc = "analyzeProject"
  /\ i <= Len(files)
  /\ LET file == files[i]
         dependencies == IF file \in DOMAIN graph THEN graph[file] ELSE << >>
         out == analyzeModule(file, disk[file], dependencies)
     IN IF out.threw
          THEN /\ pc' = "failed"
               /\ UNCHANGED <<modules, i>>
          ELSE /\ modules' = MapSet(modules, out.info)
               /\ i' = i + 1
               /\ pc' = pc
  /\ UNCHANGED <<files, disk, graph, edges, matrix, attempts, layers, report,
                 nodes>>
  /\ UNCHANGED <<deobfuscation, surroundings, runtime>>

\* faulty variant of GenerateArchitectureReport: the report is rendered
\* without waiting for analyzeProject to finish its loop
ReportWithoutBarrier ==
  /\ pc = "analyzeProject"
  /\ edges' = EdgesFrom(modules, 1)
  /\ matrix' = DependencyMatrix(modules)
  /\ layers' = categorizeModules(modules)
  /\ nodes' = DiagramNodes(layers')
  /\ report' = generateComplexityReport(modules)
  /\ pc' = "reported"
  /\ UNCHANGED <<files, disk, graph, modules, i, attempts>>
  /\ UNCHANGED <<deobfuscation, surroundings, runtime>>
\* generateArchitectureReport: the diagram and the matrix of the records
GenerateArchitectureReport ==
  /\ pc = "analyzeProject"
  /\ i > Len(files)
  /\ edges' = EdgesFrom(modules, 1)
  /\ matrix' = DependencyMatrix(modules)
  /\ layers' = categorizeModules(modules)
  /\ nodes' = DiagramNodes(layers')
  /\ report' = generateComplexityReport(modules)
  /\ pc' = "reported"
  /\ UNCHANGED <<files, disk, graph, modules, i, attempts>>
  /\ UNCHANGED <<deobfuscation, surroundings, runtime>>

Next ==
  \/ BuildGraphStep
  \/ GenerateArchitectureDocs
  \/ AnalyzeProjectStep
  \/ GenerateArchitectureReport

Spec == Init /\ [][Next]_vars

\* The same run on a batch of one scored file.
InitScores ==
  \E file \in ScoredFiles :
    /\ files = <<P_scored>>
    /\ disk = [p \in {P_scored} |-> file]
    /\ BeforeBuildGraph

SpecScores == InitScores /\ [][Next]_vars

\* The same run on a batch of one file of branch constructs.
InitBranches ==
  \E file \in BranchFiles :
    /\ files = <<P_scored>>
    /\ disk = [p \in {P_scored} |-> file]
    /\ BeforeBuildGraph

SpecBranches == InitBranches /\ [][Next]_vars
\* The same run on a batch of one file of imports, re-exports and calls.
InitDeps ==
  \E file \in DepFiles :
    /\ files = <<P_scored>>
    /\ disk = [p \in {P_scored} |-> file]
    /\ BeforeBuildGraph

SpecDeps == InitDeps /\ [][Next]_vars
\* The same run on a batch of one file: a code file or a markup file,
\* unreadable or readable with any outcome of each parse call, its tree
\* one that traverses or one that raises part-way.
ParsedFiles ==
  {Unreadable} \cup
  {File(TRUE, 50, parses, cleanParses, ast) :
     parses \in SUBSET AllModes, cleanParses \in BOOLEAN,
     ast \in {ImporterFile(<<D_relHelper, D_bare>>).ast, Breaking.ast}}

InitParse ==
  \E path \in {P_scored, P_page} : \E file \in ParsedFiles :
    /\ files = <<path>>
    /\ disk = [p \in {path} |-> file]
    /\ BeforeBuildGraph

SpecParse == InitParse /\ [][Next]_vars

\* The same run on a batch of layer paths: one file of the batch is any of
\* the layer files, the others export a function whose name has no keyword.
InitLayers ==
  \E paths \in DistinctSeqs(LayerPaths, MaxFiles) \ {<< >>} :
  \E k \in DOMAIN paths :
  \E file \in LayerFiles :
    /\ files = paths
    /\ disk = [p \in Range(paths) |->
                 IF p = paths[k] THEN file ELSE Exporting(E_run)]
    /\ BeforeBuildGraph

SpecLayers == InitLayers /\ [][Next]_vars

\* The same run on a batch of at most MaxBand branching files, each of
\* complexity 35 but for at most MaxOthers of them.
InitBands ==
  \E n \in 1..MaxBand :
  \E others \in {S \in SUBSET (1..n) : Cardinality(S) <= MaxOthers} :
  \E score \in [others -> OtherScores] :
    /\ files = [k \in 1..n |-> BandPath(k)]
    /\ disk = [p \in {BandPath(k) : k \in 1..n} |->
                 LET k == CHOOSE j \in 1..n : BandPath(j) = p
                 IN IF k \in others THEN Ifs(score[k]) ELSE Ifs(35)]
    /\ BeforeBuildGraph

SpecBands == InitBands /\ [][Next]_vars

\* The same run on a batch of files whose scores are at or next to the
\* thresholds of the bands.
InitTiers ==
  \E n \in 1..MaxTierFiles :
  \E score \in [1..n -> TierScores] :
    /\ files = [k \in 1..n |-> BandPath(k)]
    /\ disk = [p \in {BandPath(k) : k \in 1..n} |->
                 Ifs(score[CHOOSE j \in 1..n : BandPath(j) = p])]
    /\ BeforeBuildGraph

SpecTiers == InitTiers /\ [][Next]_vars
\* ------------------------------------------------------------------- run
\* run from its first statement. The root directory holds at most
\* MaxEntries entries; the documentation service answers or not, the root
\* can be read or not, the output directories can be made or not, and the
\* architecture report can be written or not.
MaxEntries == 2
P_notes == <<"p", "/", "n", ".", "m", "d">>
RootEntries == {P_helper, P_k, P_notes}
WalkExts == {<<DOT, "j", "s">>, <<DOT, "t", "s">>, <<DOT, "j", "s", "x">>,
             <<DOT, "t", "s", "x">>, <<DOT, "h", "t", "m", "l">>}

InitRun ==
  \E entries \in DistinctSeqs(RootEntries, MaxEntries) :
  \E ollama, root, dirs, write \in BOOLEAN :
    /\ env = [ollama |-> ollama, root |-> root, dirs |-> dirs,
              write |-> write, entries |-> entries]
    /\ disk = [p \in Range(entries) |-> DefaultFile(p)]
    /\ files = << >>
    /\ graph = << >> /\ modules = << >> /\ edges = << >> /\ matrix = << >>
    /\ attempts = << >> /\ layers = << >> /\ report = << >> /\ nodes = << >>
    /\ pc = "run"
    /\ i = 1
    /\ docs = {}
    /\ accepted = {} /\ patterns = << >> /\ result = Original /\ calls = << >>
    /\ NoRuntime

\* const ollamaOk = await checkOllamaConnection(); if (!ollamaOk)
\* process.exit(1)
CheckOllamaConnection ==
  /\ pc = "run"
  /\ pc' = IF env.ollama THEN "walk" ELSE "exited"
  /\ UNCHANGED <<pipeline, i, surroundings, deobfuscation, runtime>>

\* files = await walk(ROOT): collectFiles catches the failure of readdir
\* and returns, so walk returns the files collected so far and never throws
Walk ==
  /\ pc = "walk"
  /\ files' = IF env.root
                THEN SelectSeq(env.entries,
                               LAMBDA p : toLowerCase(ExtName(p)) \in WalkExts)
                ELSE << >>
  /\ pc' = "ensureAllDirs"
  /\ UNCHANGED <<disk, graph, modules, edges, matrix, attempts, layers, report,
                 nodes, i, surroundings, deobfuscation, runtime>>

\* await ensureAllDirs(), process.exit(1) when it throws; then buildGraph
EnsureAllDirs ==
  /\ pc = "ensureAllDirs"
  /\ pc' = IF env.dirs THEN "buildGraph" ELSE "exited"
  /\ i' = 1
  /\ UNCHANGED <<pipeline, surroundings, deobfuscation, runtime>>

\* generateArchitectureDocs: writeFileSafe("docs/architecture.md", ...) in
\* its try/catch; then run enters the loop over processFile
WriteArchitectureReport ==
  /\ pc = "reported"
  /\ docs' = IF env.write
               THEN docs \cup {[kind |-> "architecture", file |-> << >>]}
               ELSE docs
  /\ pc' = "processFile"
  /\ i' = 1
  /\ UNCHANGED <<pipeline, env, deobfuscation, runtime>>

\* run, step 5, one pass: processFile returns early when the file cannot be
\* read, and what it throws is caught and logged
ProcessFileStep ==
  /\ pc = "processFile"
  /\ i <= Len(files)
  /\ \E threw \in BOOLEAN :
       docs' = IF disk[files[i]].readable /\ ~threw
                 THEN docs \cup {[kind |-> "instrumented", file |-> files[i]]}
                 ELSE docs
  /\ i' = i + 1
  /\ UNCHANGED <<pipeline, pc, env, deobfuscation, runtime>>

\* run, step 6 begins
GenerateMarkdown ==
  /\ pc = "processFile"
  /\ i > Len(files)
  /\ pc' = "generateMarkdownForFile"
  /\ i' = 1
  /\ UNCHANGED <<pipeline, surroundings, deobfuscation, runtime>>

\* run, step 6, one pass: generateMarkdownForFile throws when the file
\* cannot be read or the stream fails, and the throw is caught and logged
GenerateMarkdownForFileStep ==
  /\ pc = "generateMarkdownForFile"
  /\ i <= Len(files)
  /\ \E threw \in BOOLEAN :
       docs' = IF disk[files[i]].readable /\ ~threw
                 THEN docs \cup {[kind |-> "markdown", file |-> files[i]]}
                 ELSE docs
  /\ i' = i + 1
  /\ UNCHANGED <<pipeline, pc, env, deobfuscation, runtime>>

\* all steps complete
Complete ==
  /\ pc = "generateMarkdownForFile"
  /\ i > Len(files)
  /\ pc' = "complete"
  /\ UNCHANGED <<pipeline, i, surroundings, deobfuscation, runtime>>

NextRun ==
  \/ CheckOllamaConnection
  \/ Walk
  \/ EnsureAllDirs
  \/ BuildGraphStep
  \/ GenerateArchitectureDocs
  \/ AnalyzeProjectStep
  \/ GenerateArchitectureReport
  \/ WriteArchitectureReport
  \/ ProcessFileStep
  \/ GenerateMarkdown
  \/ GenerateMarkdownForFileStep
  \/ Complete

SpecRun == InitRun /\ [][NextRun]_vars
\* ------------------------------------------------------- RuntimeAnalyzer
\* A RuntimeAnalyzer made with a configured maxEvents, or with none, and
\* the page its injected hooks run in; at most MaxArrivals calls of
\* addEvent are made, on the analyzer or on window.__runtimeAnalyzer.
MaxArrivals == 4
MaxConfigured == 2
\* the bound written in the injected addEvent
HookMaxEvents == 10000

InitRuntime ==
  \E maxEvents \in (0..MaxConfigured) \cup {DefaultMaxEvents} :
    /\ config = [maxEvents |-> maxEvents]
    /\ events = << >>
    /\ runtimeEvents = << >>
    /\ arrived = << >>
    /\ clock = 0
    /\ pc = "runtime"
    /\ i = 1
    /\ files = << >> /\ disk = << >> /\ graph = << >> /\ modules = << >>
    /\ edges = << >> /\ matrix = << >> /\ attempts = << >>
    /\ layers = << >> /\ report = << >> /\ nodes = << >>
    /\ env = Reached(<< >>) /\ docs = {}
    /\ accepted = {} /\ patterns = << >> /\ result = Original /\ calls = << >>

\* Array.prototype.shift: the first element leaves, if there is one
Shift(xs) == IF xs = << >> THEN << >> ELSE Tail(xs)

\* RuntimeAnalyzer.addEvent(event): an event that is no object is refused;
\* the event stored is the clock's value at the call
AddEvent ==
  /\ pc = "runtime"
  /\ clock < MaxArrivals
  /\ clock' = clock + 1
  /\ \E valid \in BOOLEAN :
       IF valid
         THEN /\ events' = Append(IF Len(events) >= config.maxEvents
                                    THEN Shift(events) ELSE events,
                                  clock')
              /\ arrived' = Append(arrived, clock')
         ELSE UNCHANGED <<events, arrived>>
  /\ UNCHANGED <<config, runtimeEvents, pc, i>>
  /\ UNCHANGED <<pipeline, surroundings, deobfuscation>>

\* window.__runtimeAnalyzer.addEvent(event) of the injected hooks; an
\* undefined window.__runtimeEvents is the empty array
HookAddEvent ==
  /\ pc = "runtime"
  /\ clock < MaxArrivals
  /\ clock' = clock + 1
  /\ runtimeEvents' = Append(IF Len(runtimeEvents) >= HookMaxEvents
                               THEN Shift(runtimeEvents) ELSE runtimeEvents,
                             clock')
  /\ UNCHANGED <<config, events, arrived, pc, i>>
  /\ UNCHANGED <<pipeline, surroundings, deobfuscation>>

NextRuntime ==
  \/ AddEvent
  \/ HookAddEvent

SpecRuntime == InitRuntime /\ [][NextRuntime]_vars
\* smartDeobfuscate(code) is called on a code that any set of patterns
\* detects.
InitDeobfuscate ==
  \E detects \in SUBSET PatternNames :
    /\ accepted = detects
    /\ patterns = << >>
    /\ result = Original
    /\ calls = << >>
    /\ pc = "smartDeobfuscate"
    /\ i = 1
    /\ files = << >> /\ disk = << >> /\ graph = << >> /\ modules = << >>
    /\ edges = << >> /\ matrix = << >> /\ attempts = << >>
    /\ layers = << >> /\ report = << >> /\ nodes = << >>
    /\ env = Reached(<< >>) /\ docs = {}
    /\ NoRuntime

\* const patterns = await detectObfuscationType(code); with no pattern the
\* code is returned at once
DetectObfuscationType ==
  /\ pc = "smartDeobfuscate"
  /\ patterns' = detectObfuscationType(accepted)
  /\ pc' = IF Len(patterns') = 0 THEN "returned" ELSE "applying"
  /\ UNCHANGED <<accepted, result, calls, i>>
  /\ UNCHANGED <<pipeline, surroundings, runtime>>

\* one pass of the loop over patterns: result = await
\* pattern.deobfuscate(result), which returns or throws; the catch logs
ApplyPattern ==
  /\ pc = "applying"
  /\ i <= Len(patterns)
  /\ \E threw \in BOOLEAN :
       /\ calls' = Append(calls, [name |-> patterns[i].name, input |-> result,
                                  threw |-> threw])
       /\ result' = IF threw THEN result
                    ELSE Deobfuscated(result, patterns[i].name)
  /\ i' = i + 1
  /\ UNCHANGED <<accepted, patterns, pc>>
  /\ UNCHANGED <<pipeline, surroundings, runtime>>

\* return result
ReturnResult ==
  /\ pc = "applying"
  /\ i > Len(patterns)
  /\ pc' = "returned"
  /\ UNCHANGED <<accepted, patterns, result, calls, i>>
  /\ UNCHANGED <<pipeline, surroundings, runtime>>

NextDeobfuscate ==
  \/ DetectObfuscationType
  \/ ApplyPattern
  \/ ReturnResult

SpecDeobfuscate == InitDeobfuscate /\ [][NextDeobfuscate]_vars

\* ---------------------------------------------------------------- claims
Reported == pc = "reported"

\* the record of the file at path p, when the map holds one
HasRecord(p) == \E k \in DOMAIN modules : modules[k].path = p
RecordOf(p) == modules[CHOOSE k \in DOMAIN modules : modules[k].path = p]
IndexOf(p) == CHOOSE k \in DOMAIN modules : modules[k].path = p

\* the edges the diagram holds for one specifier of one record
EdgesOfSpecifier(source, dep) ==
  {k \in DOMAIN edges : edges[k].source = source /\ edges[k].dep = dep}

\* the test of findModuleByDependency a record passes first for a
\* specifier: 1 the exact file name, 2 the directories, 3 the names, 4 none
RuleOf(module, dep) ==
  IF ExactFileMatch(module, dep) THEN 1
  ELSE IF DirMatch(module, dep) THEN 2
  ELSE IF NameMatch(module, dep) THEN 3
  ELSE 4

\* C1: every file that is read but cannot be parsed gets a record with
\* complexity 0, no exports, functions or classes, and the length of the
\* raw text as its size; the size is 0 only when the read failed.
C1_UnparsedRecordKeepsSize ==
  \A k \in DOMAIN modules :
    LET m == modules[k]
        file == disk[m.path]
    IN /\ (file.readable /\ "unambiguous" \notin file.parses) =>
            /\ m.complexity = 0
            /\ m.exports = << >> /\ m.functions = << >> /\ m.classes = << >>
            /\ m.size = file.length
       /\ (~file.readable) => m.size = 0

\* C2: no exception leaves buildGraph or analyzeProject, whatever subset of
\* the files is unreadable, unparsable or breaks the traversal; the files
\* before the loop position all have their dependency set, respectively
\* their record, and at the end every file of the batch has both.
C2_BatchSurvivesFailures ==
  /\ pc # "failed"
  /\ pc = "buildGraph" =>
       \A k \in 1..(i - 1) : files[k] \in DOMAIN graph
  /\ pc \in {"analyzeProject", "reported"} =>
       \A k \in DOMAIN files : files[k] \in DOMAIN graph
  /\ pc = "analyzeProject" => \A k \in 1..(i - 1) : HasRecord(files[k])
  /\ Reported => \A k \in DOMAIN files : HasRecord(files[k])

\* C2 witness: a finished batch of an unreadable file, an unparsable file
\* and a file whose traversal raises, with a record for the last of them.
C2_Witness ==
  /\ Reported
  /\ \E a, b, c \in DOMAIN files :
       /\ a < b /\ b < c
       /\ ~disk[files[a]].readable
       /\ disk[files[b]].readable /\ disk[files[b]].parses = {}
       /\ TraverseThrows(disk[files[c]].ast)
       /\ HasRecord(files[c])

\* C3: the matrix cell (i, j) is affirmative exactly when the diagram has
\* an edge from i to j or the path of j, or that path without its
\* extension, is a member of the dependency set of i.
C3_MatrixIffResolvedOrPath ==
  Reported =>
    \A a, b \in DOMAIN modules :
      matrix[<<a, b>>] <=>
        \/ \E k \in DOMAIN edges : /\ edges[k].source = modules[a].path
                                   /\ edges[k].target = modules[b].path
        \/ Has(modules[a].dependencies, modules[b].path)
        \/ Has(modules[a].dependencies, StripCodeExt(modules[b].path))

\* C4: a specifier whose last segment, extension stripped, is the display
\* name of a record resolves to that record, whatever the other records
\* and their order.
C4_ExactNameResolves ==
  Reported =>
    \A a, b \in DOMAIN modules :
      \A k \in DOMAIN modules[a].dependencies :
        LET dep == modules[a].dependencies[k]
        IN DepName(dep) = modules[b].name =>
             \E e \in EdgesOfSpecifier(modules[a].path, dep) :
               edges[e].target = modules[b].path

C6_EarliestOfRuleWins ==
  Reported =>
    \A e \in DOMAIN edges : \A b \in DOMAIN modules :
      RuleOf(modules[b], edges[e].dep)
          = RuleOf(RecordOf(edges[e].target), edges[e].dep)
        => IndexOf(edges[e].target) <= b

\* the records in the opposite insertion order
Reversed(mods) == [k \in DOMAIN mods |-> mods[Len(mods) + 1 - k]]

\* C6 witness: an edge whose specifier resolves to another record when the
\* same batch is enumerated in the opposite order.
C6_Witness ==
  /\ Reported
  /\ \E e \in DOMAIN edges :
       LET other == findModuleByDependency(Reversed(modules), edges[e].dep)
       IN /\ other # NoModule
          /\ Reversed(modules)[other].path # edges[e].target

\* C7: a specifier yields at most one edge, none when no record passes any
\* test for it, and every record still holds the dependency set extracted
\* from its file, unresolved specifiers included.
C7_AtMostOneEdgePerSpecifier ==
  Reported =>
    \A a \in DOMAIN modules :
      /\ modules[a].dependencies = parseDeps(modules[a].path, disk[modules[a].path])
      /\ \A k \in DOMAIN modules[a].dependencies :
           LET dep == modules[a].dependencies[k]
               n == Cardinality(EdgesOfSpecifier(modules[a].path, dep))
           IN /\ n <= 1
              /\ (\A b \in DOMAIN modules : RuleOf(modules[b], dep) = 4) => n = 0

\* C7 witness: a rendered record one of whose specifiers has an edge and
\* another of whose specifiers matches nothing and is still in its set.
C7_Witness ==
  /\ Reported
  /\ \E a \in DOMAIN modules :
       /\ Has(modules[a].dependencies, D_external)
       /\ EdgesOfSpecifier(modules[a].path, D_external) = {}
       /\ \E k \in DOMAIN edges : edges[k].source = modules[a].path

\* C8: a specifier that resolves to the record that holds it yields an
\* edge from that record to itself in the diagram.
C8_SelfEdgeKept ==
  Reported =>
    \A a \in DOMAIN modules :
      \A k \in DOMAIN modules[a].dependencies :
        LET dep == modules[a].dependencies[k]
        IN findModuleByDependency(modules, dep) = a
           => \E e \in EdgesOfSpecifier(modules[a].path, dep) :
                /\ edges[e].target = modules[a].path
                /\ EdgeLine(edges[e])[1] = EdgeLine(edges[e])[2]

\* C8 witness: a diagram with an edge from a record to itself.
C8_Witness ==
  /\ Reported
  /\ \E e \in DOMAIN edges : edges[e].source = edges[e].target

\* C9: the record of the Scenario A source has complexity 3.
C9_ScenarioAComplexity ==
  \A k \in DOMAIN modules :
    disk[modules[k].path] = ScenarioA => modules[k].complexity = 3

\* the number of times x occurs in the list xs
Occurrences(xs, x) == Cardinality({k \in DOMAIN xs : xs[k] = x})

\* C10: the record of the Scenario A source exports exactly calc and lists
\* each of add and calc once among its functions.
C10_ScenarioANames ==
  \A k \in DOMAIN modules :
    disk[modules[k].path] = ScenarioA =>
      /\ modules[k].exports = << <<"c", "a", "l", "c">> >>
      /\ Occurrences(modules[k].functions, <<"a", "d", "d">>) = 1
      /\ Occurrences(modules[k].functions, <<"c", "a", "l", "c">>) = 1
      /\ Len(modules[k].functions) = 2

\* C11: the complexity of every Module Record, whether analyzeModule
\* scored the file or createEmptyModuleInfo stood in for it, is an integer
\* that is at least 0.
C11_ComplexityIsNatural ==
  \A k \in DOMAIN modules : modules[k].complexity \in Nat

\* C11 witness: a record scored from a function (1), a logical operator
\* (0.5) and a class (2), whose accumulated score is not a whole number.
C11_Witness ==
  /\ Reported
  /\ \E k \in DOMAIN modules :
       LET ast == disk[modules[k].path].ast
           types == {Visited(ast)[n].type : n \in DOMAIN Visited(ast)}
       IN /\ {"FunctionDeclaration", "LogicalExpression",
               "ClassDeclaration"} \subseteq types
          /\ ComplexityOf(ast) % 2 = 1
          /\ modules[k].complexity = Round(ComplexityOf(ast))
          /\ modules[k].complexity > 0

RECURSIVE OwnNodes(_)
\* the nodes of a function body that belong to the function itself: the
\* walk enters no nested function, whose node it still lists
OwnNodes(ns) ==
  IF nodes = << >> THEN << >>
  ELSE LET n == Head(ns)
       IN <<n>> \o (IF n.type \in FunctionTypes THEN << >> ELSE OwnNodes(n.kids))
              \o OwnNodes(Tail(ns))

RECURSIVE ScoreOnce(_)
\* the score of a function when every construct counts once: base 1, the
\* function's own constructs, and the score of each function nested
\* directly in it, computed from that function's body alone
ScoreOnce(fn) ==
  LET own == OwnNodes(fn.kids)
      W(n) == NestedWeight(n)
              + (IF n.type \in FunctionTypes THEN 2 * ScoreOnce(n) ELSE 0)
  IN Round(2 + SumSeq([k \in DOMAIN own |-> W(own[k])]))

C18_ParseModeOrder ==
  /\ pc = "buildGraph" => \A k \in 1..(i - 1) : files[k] \in DOMAIN graph
  /\ \A p \in DOMAIN attempts :
       LET a == attempts[p]
           file == disk[p]
           Succeeds(k) == IF a[k].text = "raw" THEN a[k].sourceType \in file.parses
                          ELSE file.cleanParses
       IN /\ p \in DOMAIN graph
          /\ Len(a) <= 4
          /\ \A k \in DOMAIN a :
               /\ k <= 3 => a[k] = [text |-> "raw",
                                    sourceType |-> <<"module", "script", "unambiguous">>[k]]
               /\ k = 4 => a[k] = [text |-> "clean", sourceType |-> "unambiguous"]
               /\ k < Len(a) => ~Succeeds(k)
          /\ (file.readable /\ ExtName(p) \in CodeExts) =>
               /\ Len(a) >= 1
               /\ Len(a) <= 3 => Succeeds(Len(a))
               /\ (Len(a) = 4 /\ ~Succeeds(4)) => graph[p] = << >>
          /\ ~(file.readable /\ ExtName(p) \in CodeExts) =>
               a = << >> /\ graph[p] = << >>

\* C18 witness: a file whose three parses of the raw text failed, in the
\* order module, script, unambiguous, and whose comment-stripped text was
\* then parsed and yielded specifiers.
C18_Witness ==
  \E p \in DOMAIN attempts :
    /\ Len(attempts[p]) = 4
    /\ attempts[p][1].sourceType = "module"
    /\ attempts[p][4].text = "clean"
    /\ disk[p].cleanParses
    /\ graph[p] # << >>

\* the records of a layer list, layer after layer
Grouped(ls) == Concat([l \in DOMAIN ls |-> ls[l].modules])

\* C12: after categorizeModules every record is in exactly one of the
\* returned layers, once, and the module counts of the layers add up to
\* the number of records, records whose label names no predefined layer
\* included.
C12_EveryRecordInOneLayer ==
  Reported =>
    /\ \A a \in DOMAIN modules : Occurrences(Grouped(layers), modules[a]) = 1
    /\ SumSeq([l \in DOMAIN layers |-> Len(layers[l].modules)]) = Len(modules)

\* C12 witness: a rendered batch of at least two layers with a record
\* whose label is not the name of a predefined layer.
C12_Witness ==
  /\ Reported
  /\ Len(layers) >= 2
  /\ \E a \in DOMAIN modules :
       \A k \in DOMAIN LayerNames : classifyModule(modules[a]) # LayerNames[k]

\* the path texts that corroborate the Utilities role: those of the
\* Utilities folder test of classifyModule, as for the other three roles
UtilPathWords == {<<"u", "t", "i", "l">>, <<"h", "e", "l", "p", "e", "r">>,
                  <<"l", "i", "b">>}

\* C14: the content rule returns a label only for a record that has an
\* exported name with a keyword of the role and whose path has a
\* corroborating text of that same role, for each of the four roles.
C14_ContentRuleNeedsPath ==
  \A k \in DOMAIN modules :
    LET m == modules[k]
        path == toLowerCase(m.path)
        label == classifyByContent(m)
    IN /\ label = "API Layer" =>
            ExportsInclude(m, ApiExportWords) /\ IncludesAny(path, ApiPathWords)
       /\ label = "UI Components" =>
            ExportsInclude(m, UiExportWords) /\ IncludesAny(path, UiPathWords)
       /\ label = "Data Layer" =>
            ExportsInclude(m, DataExportWords) /\ IncludesAny(path, DataPathWords)
       /\ label = "Utilities" =>
            ExportsInclude(m, UtilExportWords) /\ IncludesAny(path, UtilPathWords)

\* the path tests of classifyModule that a record's path passes
PathHits(m) ==
  {k \in DOMAIN LabelRules : IncludesAny(toLowerCase(m.path), LabelRules[k].paths)}

\* C15: when the content rule gives no label and the path passes a path
\* test, the label is that of the first path test passed, whatever the
\* display name contains.
C15_PathRulesBeforeNames ==
  \A k \in DOMAIN modules :
    (classifyByContent(modules[k]) = NoLabel /\ PathHits(modules[k]) # {})
      => classifyModule(modules[k]) = LabelRules[MinOf(PathHits(modules[k]))].label

\* a record of Scenario C: its path ends with /src/api/client.ts and no
\* exported name has a role keyword
ScenarioC(m) ==
  /\ EndsWith(m.path, <<"/", "s", "r", "c", "/", "a", "p", "i", "/",
                        "c", "l", "i", "e", "n", "t", ".", "t", "s">>)
  /\ ~ExportsInclude(m, ApiExportWords \cup UiExportWords
                         \cup DataExportWords \cup UtilExportWords)

\* C16 as stated: every record of Scenario C is labelled API Layer, and
\* the content rule returns no label for it.
C16_ScenarioCIsApiLayer ==
  \A k \in DOMAIN modules :
    ScenarioC(modules[k]) =>
      /\ classifyModule(modules[k]) = "API Layer"
      /\ classifyByContent(modules[k]) = NoLabel

\* the position of the API Layer test in the chain
ApiRule == CHOOSE k \in DOMAIN LabelRules : LabelRules[k].label = "API Layer"

\* C16 amended: a record of Scenario C whose path passes none of the
\* feature-sliced, domain-driven and atomic path tests, which come before
\* the API Layer test, is labelled API Layer, and the content rule returns
\* no label for any record of Scenario C.
C16_ScenarioCUnlessEarlierFolder ==
  \A k \in DOMAIN modules :
    ScenarioC(modules[k]) =>
      /\ classifyByContent(modules[k]) = NoLabel
      /\ (\A r \in PathHits(modules[k]) : r >= ApiRule)
           => classifyModule(modules[k]) = "API Layer"

\* C16 witness: a rendered batch whose API Layer holds a record of
\* Scenario C that exports a function.
C16_Witness ==
  /\ Reported
  /\ \E l \in DOMAIN layers : \E j \in DOMAIN layers[l].modules :
       /\ layers[l].name = "API Layer"
       /\ ScenarioC(layers[l].modules[j])
       /\ layers[l].modules[j].exports # << >>

\* the records of the critical band
Critical == {a \in DOMAIN modules : modules[a].complexity > 30}

\* whether the critical list of the recommendations names record a
Recommended(a) ==
  \E k \in DOMAIN report.critical : report.critical[k].name = modules[a].name

\* C13 as stated: every record whose complexity is above 30 is counted in
\* the critical band and named in the recommendations of the report.
C13_EveryCriticalModuleNamed ==
  Reported =>
    /\ report.distribution.critical = Cardinality(Critical)
    /\ \A a \in Critical : Recommended(a)

\* record b comes before record a in the report's order: by descending
\* complexity, by insertion among equals
RanksBefore(b, a) ==
  \/ modules[b].complexity > modules[a].complexity
  \/ modules[b].complexity = modules[a].complexity /\ b < a

\* C13 amended: every record whose complexity is above 30 is counted in
\* the critical band, and the recommendations name exactly the five
\* critical records that come first in the report's order, all of them
\* when there are at most five.
C13_FirstFiveCriticalNamed ==
  Reported =>
    /\ report.distribution.critical = Cardinality(Critical)
    /\ \A a \in Critical :
         Recommended(a)
           <=> Cardinality({b \in Critical : RanksBefore(b, a)}) < 5

\* C13 witness: a report of more than five critical records whose
\* recommendations name a record inserted after five other critical ones.
C13_Witness ==
  /\ Reported
  /\ Cardinality(Critical) > 5
  /\ \E a \in Critical :
       /\ Recommended(a)
       /\ Cardinality({b \in Critical : b < a}) >= 5

\* the confidence of the pattern of a name
ConfidenceOf(name) ==
  LET k == CHOOSE n \in DOMAIN obfuscationPatterns :
             obfuscationPatterns[n].name = name
  IN obfuscationPatterns[k].confidence

\* the text a call leaves behind
OutputOf(call) ==
  IF call.threw THEN call.input ELSE Deobfuscated(call.input, call.name)

\* C19: the calls of deobfuscate are made on patterns that accepted the
\* original code, each pattern at most once, in non-increasing order of
\* confidence; the first call gets the original code and every later one
\* the text the previous call left, a call that throws leaving its input;
\* the result is the text the last call left; at the return every
\* accepted pattern has been called, and with no accepted pattern the
\* result is the original code.
C19_AppliesDetectedByConfidence ==
  /\ \A k \in DOMAIN calls :
       /\ calls[k].name \in accepted
       /\ calls[k].input = IF k = 1 THEN Original ELSE OutputOf(calls[k - 1])
       /\ \A l \in DOMAIN calls :
            k < l => /\ calls[k].name # calls[l].name
                     /\ ConfidenceOf(calls[k].name) >= ConfidenceOf(calls[l].name)
  /\ result = IF calls = << >> THEN Original ELSE OutputOf(calls[Len(calls)])
  /\ pc = "returned" =>
       /\ {calls[k].name : k \in DOMAIN calls} = accepted
       /\ accepted = {} => result = Original

\* C19 witness: a return after three calls or more, the second of which
\* threw, on patterns that the array lists in another order than their
\* confidence.
C19_Witness ==
  /\ pc = "returned"
  /\ Len(calls) >= 3
  /\ calls[2].threw /\ ~calls[1].threw /\ ~calls[3].threw
  /\ {"uglify", "terser"} \subseteq accepted
  /\ result # Original

\* the branch, loop, case and catch nodes of a tree: if, while, do-while,
\* for, for-in, for-of, a switch case that has a test, a catch clause
BranchNodes(ast) ==
  SelectSeq(PreOrder(ast),
            LAMBDA n : \/ n.type \in {"IfStatement", "WhileStatement",
                                      "DoWhileStatement", "ForStatement",
                                      "ForInStatement", "ForOfStatement",
                                      "CatchClause"}
                       \/ n.type = "SwitchCase" /\ n.flag)
FunctionNodes(ast) ==
  SelectSeq(PreOrder(ast), LAMBDA n : n.type \in FunctionTypes)

\* C21: in a file of functions and branch constructs only, the complexity
\* is 1 for each function plus 1 for each if, while, do-while, for, for-in,
\* for-of, switch case with a test and catch clause, at module top level
\* as in a function.
C21_EachBranchAddsOne ==
  \A k \in DOMAIN modules :
    LET ast == disk[modules[k].path].ast
    IN modules[k].complexity
         = Len(FunctionNodes(ast)) + Len(BranchNodes(ast))
RECURSIVE RawFunctionScore(_)
\* the score of a function in half points when nothing is rounded: base 1,
\* the visitor over every descendant, and every descendant function's own
\* unrounded score
RawFunctionScore(fn) ==
  LET W(n) == NestedWeight(n)
              + (IF n.type \in FunctionTypes THEN RawFunctionScore(n) ELSE 0)
      below == VisitedBelow(fn)
  IN 2 + SumSeq([k \in DOMAIN below |-> W(below[k])])

\* the contributions of a file in half points when nothing is rounded
RawScore(ast) ==
  LET all == Visited(ast)
      W(n) == IF n.type \in FunctionTypes THEN RawFunctionScore(n)
              ELSE ModuleWeight(n)
  IN SumSeq([k \in DOMAIN all |-> W(all[k])])

\* C22: the complexity of a scored record is the sum of the contributions
\* of the file, half points included, rounded once at the end.
C22_RoundedOnceAtTheEnd ==
  \A k \in DOMAIN modules :
    LET file == disk[modules[k].path]
    IN (file.readable /\ file.parses # {}) =>
         modules[k].complexity = Round(RawScore(file.ast))
\* the specifiers a tree holds: the sources of the imports, of the named
\* re-exports that have a source and of the wildcard re-exports, and the
\* literal argument of every call of require or __webpack_require__ with
\* one argument
SpecifiersIn(ast) ==
  LET all == PreOrder(ast)
      Here(n) ==
        \/ n.type \in {"ImportDeclaration", "ExportAllDeclaration"}
        \/ n.type = "ExportNamedDeclaration" /\ n.src # NoName
        \/ /\ n.type = "CallExpression"
           /\ n.name \in {REQUIRE, WEBPACK_REQUIRE}
           /\ n.argc = 1
           /\ n.src # NoName
  IN {all[k].src : k \in {j \in DOMAIN all : Here(all[j])}}

\* C23: the dependency set of every parsed file whose traversal completes
\* is exactly the sources of its imports, of its named re-exports that
\* carry a source and of its wildcard re-exports, and the argument of
\* every require or __webpack_require__ call with exactly one argument, a
\* string literal; each specifier once.
C23_ExactSpecifiers ==
  \A p \in DOMAIN graph :
    LET file == disk[p]
    IN (file.readable /\ file.parses # {} /\ ExtName(p) \in CodeExts
          /\ ~TraverseThrows(file.ast)) =>
         /\ Range(graph[p]) = SpecifiersIn(file.ast)
         /\ \A a, b \in DOMAIN graph[p] : graph[p][a] = graph[p][b] => a = b

\* C24: in the layer grouping of the rendered report every record stands
\* under the layer whose name is the label classifyModule gives it.
C24_ListedUnderOwnLabel ==
  Reported =>
    \A l \in DOMAIN layers : \A k \in DOMAIN layers[l].modules :
      layers[l].name = classifyModule(layers[l].modules[k])
\* C25: a specifier without '/' whose name is not the name of any record,
\* does not contain one and is contained in none has no edge in the
\* diagram, whatever the batch.
C25_BareExternalHasNoEdge ==
  Reported =>
    \A a \in DOMAIN modules :
      \A k \in DOMAIN modules[a].dependencies :
        LET dep == modules[a].dependencies[k]
        IN (/\ ~Includes(dep, <<SLASH>>)
            /\ \A b \in DOMAIN modules :
                 /\ DepName(dep) # modules[b].name
                 /\ ~Includes(DepName(dep), modules[b].name)
                 /\ ~Includes(modules[b].name, DepName(dep)))
           => EdgesOfSpecifier(modules[a].path, dep) = {}
\* the band of a score: low up to 10, medium 11 to 20, high 21 to 30,
\* critical above 30
BandOf(complexity) ==
  IF complexity <= 10 THEN "low"
  ELSE IF complexity <= 20 THEN "medium"
  ELSE IF complexity <= 30 THEN "high"
  ELSE "critical"
\* the glyph that stands for a band
GlyphOf(band) ==
  CASE band = "low" -> "green"
    [] band = "medium" -> "yellow"
    [] band = "high" -> "orange"
    [] band = "critical" -> "red"
InBand(band) == {k \in DOMAIN modules : BandOf(modules[k].complexity) = band}

\* C26: each of the four counts of the complexity report is the number of
\* records in its band, the bands being cut at 10, 20 and 30; the four
\* counts sum to the number of records; every record has one node in the
\* diagram, and the glyph of that node is the glyph of the record's band.
C26_BandsAndGlyphsAgree ==
  Reported =>
    /\ report.distribution
         = [low |-> Cardinality(InBand("low")),
            medium |-> Cardinality(InBand("medium")),
            high |-> Cardinality(InBand("high")),
            critical |-> Cardinality(InBand("critical"))]
    /\ report.distribution.low + report.distribution.medium
         + report.distribution.high + report.distribution.critical
         = Len(modules)
    /\ \A k \in DOMAIN modules :
         \E n \in DOMAIN nodes :
           /\ nodes[n].id = sanitizeNodeId(modules[k].path)
           /\ nodes[n].complexity = modules[k].complexity
           /\ nodes[n].glyph = GlyphOf(BandOf(modules[k].complexity))
           /\ \A o \in DOMAIN nodes : nodes[o].id = nodes[n].id => o = n
    /\ Len(nodes) = Len(modules)

\* C26 witness: a rendered batch of a record of complexity 30 and one of
\* complexity 31, counted in the high and the critical band and drawn with
\* the orange and the red glyph.
C26_Witness ==
  /\ Reported
  /\ report.distribution.high = 1 /\ report.distribution.critical = 1
  /\ \E a, b \in DOMAIN nodes :
       /\ nodes[a].complexity = 30 /\ nodes[a].glyph = "orange"
       /\ nodes[b].complexity = 31 /\ nodes[b].glyph = "red"
\* whether anything of the architecture report is rendered
Rendered ==
  \/ Reported
  \/ edges # << >> \/ matrix # << >> \/ nodes # << >>
  \/ layers # << >> \/ report # << >>

\* C27: nothing of the report (diagram nodes and edges, matrix, layers,
\* complexity report) is rendered before the record map holds a record
\* for every file of the batch, and the rendered diagram has a node for
\* every file.
C27_RenderedAfterAllRecords ==
  Rendered =>
    /\ \A k \in DOMAIN files : HasRecord(files[k])
    /\ Len(modules) = Len(files)
    /\ Len(nodes) = Len(files)
    /\ DOMAIN matrix = (DOMAIN files) \X (DOMAIN files)

\* C27 witness: a rendered report of three files or more, one of them
\* unreadable, with an edge in the diagram.
C27_Witness ==
  /\ Reported
  /\ Len(files) >= 3
  /\ \E k \in DOMAIN files : ~disk[files[k]].readable
  /\ edges # << >>
  /\ Len(nodes) = Len(files)
\* C28: the dependency set and the record a file has depend on that file
\* alone, whatever the position of the file in the batch and whatever the
\* other files are; analyzeProject writes one new key of the record map at
\* each pass, the key of the file it analyses, and no key twice.
C28_RecordDependsOnFileOnly ==
  /\ \A p \in DOMAIN graph : graph[p] = parseDeps(p, disk[p])
  /\ \A k \in DOMAIN modules :
       LET p == modules[k].path
       IN modules[k] = analyzeModule(p, disk[p], parseDeps(p, disk[p])).info
  /\ pc = "analyzeProject" => Len(modules) = i - 1
  /\ pc \in {"analyzeProject", "reported"} =>
       \A k \in DOMAIN modules : modules[k].path = files[k]

\* C28 witness: a finished batch in which a file with functions stands
\* before a file with dependencies, each with its own record.
C28_Witness ==
  /\ Reported
  /\ \E a, b \in DOMAIN modules :
       /\ a < b
       /\ modules[a].functions # << >> /\ modules[a].dependencies = << >>
       /\ modules[b].dependencies # << >> /\ modules[b].functions = << >>
\* C29: run exits early only when the root directory cannot be
\* enumerated, and whenever it cannot: with a root that can be read run
\* never exits early, and with a root that cannot be read run goes no
\* further than walk.
C29_AbortsOnlyWhenNotEnumerable ==
  /\ pc = "exited" => ~env.root
  /\ ~env.root => pc \in {"run", "walk", "exited"}
\* the last n elements of xs, all of them when xs has fewer
LastOf(xs, n) ==
  IF Len(xs) <= n THEN xs ELSE SubSeq(xs, Len(xs) - n + 1, Len(xs))

\* C30: the analyzer never stores more than config.maxEvents events; what
\* it stores is the most recent accepted events in arrival order; and the
\* buffer the injected hooks write never holds more than config.maxEvents
\* events either.
C30_BuffersKeepConfiguredBound ==
  /\ Len(events) <= config.maxEvents
  /\ events = LastOf(arrived, config.maxEvents)
  /\ Len(runtimeEvents) <= config.maxEvents
====
